---- MODULE Spec2Model ----
(***************************************************************************)
(* Model of dashboard.py: a Streamlit script that is rerun top to bottom   *)
(* on every user interaction.  One run loads hour.csv and day.csv through  *)
(* the memoizing loader, replaces season/weather codes by labels, derives  *)
(* the year column, reads the three sidebar multi-selects, filters both    *)
(* tables and computes and displays the four scorecard metrics.            *)
(*                                                                         *)
(* A table is a sequence of rows, a row a record of its columns.  Only the *)
(* columns the pipeline up to the scorecard reads are kept (season,        *)
(* weathersit, dteday, casual, registered, cnt).  A cell of a label column *)
(* is dynamically typed as in pandas: an integer code, a string label or   *)
(* the missing value NaN.                                                  *)
(***************************************************************************)
EXTENDS Integers, Sequences, FiniteSets, TLC

\* Bounds of the model.
MaxHourRows == 2
MaxDayRows == 2
MaxFailedLoads == 1
MaxCode == 5

\* Cell values.
IntCell(n) == <<"int", n>>
StrCell(s) == <<"str", s>>
NaN == <<"nan">>

\* The two files load_data reads.
Files == {"hour", "day"}

\* Rows the files are built from: a Fall 2011 row and a Spring 2012 row with
\* mapped codes (the second with cnt different from casual + registered), and a
\* row whose season and weather codes are outside the mappings.  The columns
\* hr, weekday, workingday, read only by the charts, are left out.
RawRows ==
    { [season |-> IntCell(3), weathersit |-> IntCell(1), dteday |-> <<2011, 7, 1>>,
       casual |-> 40, registered |-> 60, cnt |-> 100],
      [season |-> IntCell(1), weathersit |-> IntCell(1), dteday |-> <<2012, 1, 1>>,
       casual |-> 20, registered |-> 20, cnt |-> 50],
      [season |-> IntCell(5), weathersit |-> IntCell(9), dteday |-> <<2011, 12, 31>>,
       casual |-> 5, registered |-> 5, cnt |-> 10] }

\* Order of the dates <<year, month, day>>.
DateLeq(d, e) ==
    \/ d[1] < e[1]
    \/ d[1] = e[1] /\ d[2] < e[2]
    \/ d[1] = e[1] /\ d[2] = e[2] /\ d[3] <= e[3]

\* The files of at most n rows, in chronological order as the dataset is
\* (several rows may share a date, as the hours of a day do).
Tables(n) ==
    { t \in UNION { [1..k -> RawRows] : k \in 0..n } :
        \A i \in 1..(Len(t) - 1) : DateLeq(t[i].dteday, t[i + 1].dteday) }

VARIABLES
    hourFile, dayFile,        \* contents of data/hour.csv and data/day.csv
    cache,                    \* st.cache_data entry of load_data: <<>> or <<hour, day>>
    reads,                    \* how often each file has been read from disk
    status,                   \* "init", "load_error" or "ok": outcome of the last run
    hour_data, day_data,      \* the script's tables after lines 27-34
    selected_season, selected_weather, selected_year,
    filtered_hour_data, filtered_day_data,
    avg_rentals_per_day, avg_rentals_per_hour,
    avg_users_per_day, avg_users_per_hour,
    display                   \* the four texts handed to col1..col4.metric

scriptVars == <<hour_data, day_data, selected_season, selected_weather, selected_year,
                filtered_hour_data, filtered_day_data,
                avg_rentals_per_day, avg_rentals_per_hour,
                avg_users_per_day, avg_users_per_hour, display>>
vars == <<hourFile, dayFile, cache, reads, status, scriptVars>>

season_mapping == (1 :> "Spring") @@ (2 :> "Summer") @@ (3 :> "Fall") @@ (4 :> "Winter")
weather_mapping ==
    (1 :> "Clear/Few Clouds") @@ (2 :> "Mist/Cloudy") @@
    (3 :> "Light Snow/Rain") @@ (4 :> "Heavy Rain/Snow")

\* table[col]
Column(table, col) == [i \in 1..Len(table) |-> table[i][col]]

\* table[col] = series (adds the column when the table has none of that name)
SetColumn(table, col, series) ==
    [i \in 1..Len(table) |->
        IF col \in DOMAIN table[i]
        THEN [table[i] EXCEPT ![col] = series[i]]
        ELSE (col :> series[i]) @@ table[i]]

\* Series.replace(dict) instead of Series.map(dict): a cell that is no key of
\* the dict is kept as it is.
MapCell_keep(mapping, c) ==
    IF c[1] = "int" /\ c[2] \in DOMAIN mapping THEN StrCell(mapping[c[2]]) ELSE c

\* Series.map(dict) on one cell: a key of the dict gives its value, anything
\* else (an unmapped code, a string, NaN) gives NaN.
MapCell(mapping, c) ==
    IF c[1] = "int" /\ c[2] \in DOMAIN mapping THEN StrCell(mapping[c[2]]) ELSE NaN

SeriesMap(series, mapping) == [i \in 1..Len(series) |-> MapCell(mapping, series[i])]

\* pd.to_datetime(dteday).dt.year on one cell; a date is <<year, month, day>>.
DtYear(d) == IntCell(d[1])

\* Lines 27-34 applied to one table.
Label(table) ==
    LET t1 == SetColumn(table, "season", SeriesMap(Column(table, "season"), season_mapping))
        t2 == SetColumn(t1, "weathersit",
                        SeriesMap(Column(t1, "weathersit"), weather_mapping))
    IN  SetColumn(t2, "year", [i \in 1..Len(t2) |-> DtYear(t2[i].dteday)])

\* Series.unique(), as the set of its values.
Unique(series) == {series[i] : i \in 1..Len(series)}

\* Membership by ==, under which NaN equals nothing.
Isin_nonan(c, values) == c # NaN /\ c \in values

\* An empty selection read as "no filter on this attribute".
Isin_emptyall(c, values) == values = {} \/ c \in values

\* Series.isin(values) on one cell (pandas matches NaN with NaN).
Isin(c, values) == c \in values

\* The three masks joined by | instead of &.
Filter_or(table, ss, sw, sy) ==
    SelectSeq(table, LAMBDA r : Isin(r.season, ss) \/ Isin(r.weathersit, sw)
                                 \/ Isin(r.year, sy))

\* Lines 61-70: boolean-mask selection by the three memberships.
Filter(table, ss, sw, sy) ==
    SelectSeq(table, LAMBDA r : Isin(r.season, ss) /\ Isin(r.weathersit, sw)
                                 /\ Isin(r.year, sy))

RECURSIVE GCD(_, _)
GCD(a, b) == IF b = 0 THEN a ELSE GCD(b, a % b)

\* A float that is the quotient n / d, kept exact as a reduced fraction.
Frac(n, d) == LET g == GCD(n, d) IN <<"num", n \div g, d \div g>>

RECURSIVE SeqSum(_)
SeqSum(s) == IF s = <<>> THEN 0 ELSE Head(s) + SeqSum(Tail(s))

\* Series.sum() in place of Series.mean().
Mean_sum(series) == IF Len(series) = 0 THEN NaN ELSE Frac(SeqSum(series), 1)

\* A mean that reports 0 over zero rows.
Mean_zero(series) == IF Len(series) = 0 THEN Frac(0, 1) ELSE Frac(SeqSum(series), Len(series))

\* Series.mean(): NaN over zero rows.
Mean(series) == IF Len(series) = 0 THEN NaN ELSE Frac(SeqSum(series), Len(series))

\* table[['casual', 'registered']].sum(axis=1)
UsersPerRow(table) == [i \in 1..Len(table) |-> table[i].casual + table[i].registered]

Digit(k) == ToString(k)

\* f"{x:.2f}": "nan" for NaN, else the value rounded to hundredths.
Format2f(x) ==
    IF x = NaN THEN "nan"
    ELSE LET h == (200 * x[2] + x[3]) \div (2 * x[3])
         IN  ToString(h \div 100) \o "." \o Digit((h % 100) \div 10) \o Digit(h % 10)

\* load_data without the decorator: never memoized.
CacheHit_never == FALSE

\* @st.cache_data: whether load_data's result is memoized.
CacheHit == cache # <<>>

\* A cache that hands out the stored object itself (st.cache_resource): the
\* column assignments of the script then change the stored tables.
CacheAfterScript_shared(stored, hd, dd) == <<hd, dd>>

\* @st.cache_data hands every caller its own copy of the memoized value, so
\* the column assignments of lines 27-34 leave the stored tables as they are.
CacheAfterScript(stored, hd, dd) == stored

Blank == <<"undefined">>

Init ==
    /\ hourFile \in Tables(MaxHourRows)
    /\ dayFile \in Tables(MaxDayRows)
    /\ cache = <<>>
    /\ reads = [hour |-> 0, day |-> 0]
    /\ status = "init"
    /\ hour_data = <<>> /\ day_data = <<>>
    /\ selected_season = {} /\ selected_weather = {} /\ selected_year = {}
    /\ filtered_hour_data = <<>> /\ filtered_day_data = <<>>
    /\ avg_rentals_per_day = Blank /\ avg_rentals_per_hour = Blank
    /\ avg_users_per_day = Blank /\ avg_users_per_hour = Blank
    /\ display = <<>>

\* One user interaction with the sidebar: one option of one multi-select is
\* added or removed (each such change triggers a rerun).
Toggle(set, o) == IF o \in set THEN set \ {o} ELSE set \cup {o}

\* What the three multi-selects of lines 44-58 return in a run.  Without widget
\* state: their defaults, every option, the options being the distinct values
\* of the hourly table.  Else the widget state with one option toggled.
Selections(useDefault, hd) ==
    LET os == Unique(Column(hd, "season"))
        ow == Unique(Column(hd, "weathersit"))
        oy == Unique(Column(hd, "year"))
    IN  IF useDefault THEN {<<os, ow, oy>>}
        ELSE {<<Toggle(selected_season, o), selected_weather, selected_year>> : o \in os}
             \cup {<<selected_season, Toggle(selected_weather, o), selected_year>> : o \in ow}
             \cup {<<selected_season, selected_weather, Toggle(selected_year, o)>> : o \in oy}

\* Lines 16-84 of one run whose load_data call returned `stored`.
Script(stored, useDefault) ==
    /\ hour_data' = Label(stored[1])
    /\ day_data' = Label(stored[2])
    /\ \E sel \in Selections(useDefault, hour_data') :
        /\ selected_season' = sel[1]
        /\ selected_weather' = sel[2]
        /\ selected_year' = sel[3]
    /\ filtered_hour_data' =
         Filter(hour_data', selected_season', selected_weather', selected_year')
    /\ filtered_day_data' =
         Filter(day_data', selected_season', selected_weather', selected_year')
    /\ avg_rentals_per_day' = Mean(Column(filtered_day_data', "cnt"))
    /\ avg_rentals_per_hour' = Mean(Column(filtered_hour_data', "cnt"))
    /\ avg_users_per_day' = Mean(UsersPerRow(filtered_day_data'))
    /\ avg_users_per_hour' = Mean(UsersPerRow(filtered_hour_data'))
    /\ display' = <<Format2f(avg_rentals_per_day'), Format2f(avg_rentals_per_hour'),
                    Format2f(avg_users_per_day'), Format2f(avg_users_per_hour')>>
    /\ cache' = CacheAfterScript(stored, hour_data', day_data')
    /\ status' = "ok"

\* A run whose load_data call raises: nothing is memoized yet, pd.read_csv
\* fails on the first missing file, and the script stops at line 16.
RunLoadError(present) ==
    /\ ~CacheHit
    /\ present # Files
    /\ IF "hour" \in present
       THEN /\ reads.hour < MaxFailedLoads
            /\ reads' = [reads EXCEPT !.hour = @ + 1]
       ELSE reads' = reads
    /\ status' = "load_error"
    /\ UNCHANGED <<hourFile, dayFile, cache, scriptVars>>

\* load_data() of a run in which it returns (the memoized tables, or both
\* files read from disk and memoized), followed by the rest of the script.
LoadData(useDefault) ==
    IF CacheHit
    THEN /\ reads' = reads
         /\ Script(cache, useDefault)
    ELSE /\ reads' = [hour |-> reads.hour + 1, day |-> reads.day + 1]
         /\ Script(<<hourFile, dayFile>>, useDefault)

\* A run with no widget state (a new session): every multi-select returns its
\* default.
RunDefault ==
    /\ LoadData(TRUE)
    /\ UNCHANGED <<hourFile, dayFile>>

\* A rerun after the user changed the sidebar of a page that has been rendered.
RunSelected ==
    /\ status = "ok"
    /\ LoadData(FALSE)
    /\ UNCHANGED <<hourFile, dayFile>>

Next ==
    \/ \E present \in SUBSET Files : RunLoadError(present)
    \/ RunDefault
    \/ RunSelected

Spec == Init /\ [][Next]_vars

\* Files of one row each, over every season and weather code of 0..MaxCode:
\* the codes of both mappings and codes on either side of them.
CodeRows ==
    { [season |-> IntCell(s), weathersit |-> IntCell(w), dteday |-> <<2011, 1, 1>>,
       casual |-> 1, registered |-> 2, cnt |-> 3] : s \in 0..MaxCode, w \in 0..MaxCode }

InitCodes ==
    /\ hourFile \in [1..1 -> CodeRows]
    /\ dayFile \in [1..1 -> CodeRows]
    /\ cache = <<>>
    /\ reads = [hour |-> 0, day |-> 0]
    /\ status = "init"
    /\ hour_data = <<>> /\ day_data = <<>>
    /\ selected_season = {} /\ selected_weather = {} /\ selected_year = {}
    /\ filtered_hour_data = <<>> /\ filtered_day_data = <<>>
    /\ avg_rentals_per_day = Blank /\ avg_rentals_per_hour = Blank
    /\ avg_users_per_day = Blank /\ avg_users_per_hour = Blank
    /\ display = <<>>

SpecCodes == InitCodes /\ [][Next]_vars

(***************************************************************************)
(* Properties.                                                             *)
(***************************************************************************)

\* The last run completed: load_data returned and the script ran to the scorecard.
Ran == status = "ok"

\* Row r satisfies the three memberships of the current selections.
Qualifies(r) ==
    /\ r.season \in selected_season
    /\ r.weathersit \in selected_weather
    /\ r.year \in selected_year

Rows(table) == {table[i] : i \in 1..Len(table)}

\* Every option of all three multi-selects is selected.
AllSelected ==
    /\ selected_season = {hour_data[i].season : i \in 1..Len(hour_data)}
    /\ selected_weather = {hour_data[i].weathersit : i \in 1..Len(hour_data)}
    /\ selected_year = {hour_data[i].year : i \in 1..Len(hour_data)}

\* C1: every row of either filtered table has its season, weather label and
\* year in the selected sets, and a filtered table has no more rows than the
\* table it was filtered from.
C1_FilterSound ==
    Ran =>
        /\ \A r \in Rows(filtered_hour_data) : Qualifies(r)
        /\ \A r \in Rows(filtered_day_data) : Qualifies(r)
        /\ Len(filtered_hour_data) <= Len(hour_data)
        /\ Len(filtered_day_data) <= Len(day_data)

C1_Witness ==
    /\ Ran
    /\ 0 < Len(filtered_hour_data) /\ Len(filtered_hour_data) < Len(hour_data)
    /\ Len(filtered_day_data) < Len(day_data)

\* The two-row table of the example: (Fall, 2011, cnt 100), (Spring, 2012, cnt 50),
\* filtered by season = {Fall} with the weather and year of both rows selected.
ExampleSelection ==
    /\ Ran
    /\ Len(hour_data) = 2
    /\ hour_data[1].season = StrCell("Fall") /\ hour_data[1].year = IntCell(2011)
    /\ hour_data[1].cnt = 100
    /\ hour_data[2].season = StrCell("Spring") /\ hour_data[2].year = IntCell(2012)
    /\ hour_data[2].cnt = 50
    /\ selected_season = {StrCell("Fall")}
    /\ selected_weather = {hour_data[1].weathersit, hour_data[2].weathersit}
    /\ selected_year = {IntCell(2011), IntCell(2012)}

\* C2: a row of a labelled table is in the filtered table iff it satisfies all
\* three memberships, as many rows are kept as qualify, and in the example
\* season = {Fall} yields exactly the first row and a mean cnt of 100.
C2_FilterExact ==
    /\ Ran =>
        /\ \A r \in Rows(hour_data) : r \in Rows(filtered_hour_data) <=> Qualifies(r)
        /\ \A r \in Rows(day_data) : r \in Rows(filtered_day_data) <=> Qualifies(r)
        /\ Len(filtered_hour_data) =
             Cardinality({i \in 1..Len(hour_data) : Qualifies(hour_data[i])})
        /\ Len(filtered_day_data) =
             Cardinality({i \in 1..Len(day_data) : Qualifies(day_data[i])})
    /\ ExampleSelection =>
        /\ filtered_hour_data = <<hour_data[1]>>
        /\ avg_rentals_per_hour = <<"num", 100, 1>>

C2_Witness ==
    /\ ExampleSelection
    /\ \E r \in Rows(day_data) : r.season = NaN

\* Some multi-select has nothing selected.
SomeSelectionEmpty ==
    selected_season = {} \/ selected_weather = {} \/ selected_year = {}

\* C3: when the selection of any one of the three dimensions is empty, the run
\* completes and both filtered tables are empty, whatever the other two are.
C3_EmptySelection ==
    (Ran /\ SomeSelectionEmpty) =>
        filtered_hour_data = <<>> /\ filtered_day_data = <<>>

C3_Witness ==
    /\ Ran
    /\ selected_season = {} /\ selected_weather # {} /\ selected_year # {}
    /\ Len(hour_data) > 0 /\ Len(day_data) > 0

C5_CacheImmutable ==
    cache # <<>> =>
        /\ cache = <<hourFile, dayFile>>
        /\ \A k \in 1..2 : \A r \in Rows(cache[k]) :
              /\ r.season[1] = "int"
              /\ r.weathersit[1] = "int"
              /\ "year" \notin DOMAIN r

C5_Witness ==
    /\ Ran /\ ~AllSelected
    /\ cache # <<>>
    /\ \E r \in Rows(hour_data) : r.season = StrCell("Fall") /\ r.year = IntCell(2011)
    /\ \E r \in Rows(day_data) : r.season = StrCell("Spring")

\* C6: season codes 1..4 become Spring, Summer, Fall, Winter and weather codes
\* 1..4 their four descriptions, in both tables; a code outside the mapping
\* becomes a missing label, and every row is kept.
C6_LabelMapping ==
    LET season(c) ==
            CASE c = IntCell(1) -> StrCell("Spring")
              [] c = IntCell(2) -> StrCell("Summer")
              [] c = IntCell(3) -> StrCell("Fall")
              [] c = IntCell(4) -> StrCell("Winter")
              [] OTHER -> NaN
        weather(c) ==
            CASE c = IntCell(1) -> StrCell("Clear/Few Clouds")
              [] c = IntCell(2) -> StrCell("Mist/Cloudy")
              [] c = IntCell(3) -> StrCell("Light Snow/Rain")
              [] c = IntCell(4) -> StrCell("Heavy Rain/Snow")
              [] OTHER -> NaN
        labelled(file, table) ==
            /\ Len(table) = Len(file)
            /\ \A i \in 1..Len(file) :
                  /\ table[i].season = season(file[i].season)
                  /\ table[i].weathersit = weather(file[i].weathersit)
    IN  Ran => labelled(hourFile, hour_data) /\ labelled(dayFile, day_data)

C6_Witness ==
    /\ Ran
    /\ hour_data[1].season = NaN
    /\ hour_data[1].weathersit = StrCell("Heavy Rain/Snow")
    /\ day_data[1].season = StrCell("Summer")
    /\ day_data[1].weathersit = NaN
    /\ filtered_hour_data = hour_data

\* x is the number total / n.
IsQuotient(x, total, n) == x[1] = "num" /\ x[2] * n = x[3] * total

\* C7: over non-empty filtered tables the four scalars are the means of cnt and
\* of casual + registered over the filtered daily and hourly rows, and the
\* rentals and users scalars of a table agree when cnt = casual + registered
\* in each of its filtered rows.
C7_Metrics ==
    LET cnt(t) == SeqSum([i \in 1..Len(t) |-> t[i].cnt])
        users(t) == SeqSum([i \in 1..Len(t) |-> t[i].casual + t[i].registered])
        consistent(t) == \A r \in Rows(t) : r.cnt = r.casual + r.registered
        d == filtered_day_data
        h == filtered_hour_data
    IN  /\ (Ran /\ d # <<>>) =>
            /\ IsQuotient(avg_rentals_per_day, cnt(d), Len(d))
            /\ IsQuotient(avg_users_per_day, users(d), Len(d))
            /\ consistent(d) => avg_rentals_per_day = avg_users_per_day
        /\ (Ran /\ h # <<>>) =>
            /\ IsQuotient(avg_rentals_per_hour, cnt(h), Len(h))
            /\ IsQuotient(avg_users_per_hour, users(h), Len(h))
            /\ consistent(h) => avg_rentals_per_hour = avg_users_per_hour

C7_Witness ==
    /\ Ran
    /\ Len(filtered_hour_data) = 2
    /\ filtered_day_data # <<>> /\ Len(filtered_day_data) < Len(day_data)
    /\ avg_rentals_per_hour # avg_users_per_hour
    /\ avg_rentals_per_day = avg_users_per_day

\* C8: over an empty filtered table the scalars are NaN (the mean of zero
\* rows), the run completes all the same, and the display receives "nan".
C8_EmptyMetrics ==
    /\ (Ran /\ filtered_day_data = <<>>) =>
        /\ avg_rentals_per_day = NaN /\ avg_users_per_day = NaN
        /\ display[1] = "nan" /\ display[3] = "nan"
    /\ (Ran /\ filtered_hour_data = <<>>) =>
        /\ avg_rentals_per_hour = NaN /\ avg_users_per_hour = NaN
        /\ display[2] = "nan" /\ display[4] = "nan"

C8_Witness ==
    /\ Ran
    /\ filtered_day_data = <<>> /\ filtered_hour_data = <<>>
    /\ Len(hour_data) > 0 /\ Len(day_data) > 0
    /\ display = <<"nan", "nan", "nan", "nan">>

\* C9: what a run produces depends only on the file contents and that run's
\* selections: it equals the pipeline applied to the files from scratch,
\* whatever runs came before.
C9_PureRecompute ==
    LET fh == Filter(Label(hourFile), selected_season, selected_weather, selected_year)
        fd == Filter(Label(dayFile), selected_season, selected_weather, selected_year)
    IN  Ran =>
          /\ filtered_hour_data = fh
          /\ filtered_day_data = fd
          /\ avg_rentals_per_day = Mean(Column(fd, "cnt"))
          /\ avg_rentals_per_hour = Mean(Column(fh, "cnt"))
          /\ avg_users_per_day = Mean(UsersPerRow(fd))
          /\ avg_users_per_hour = Mean(UsersPerRow(fh))

C9_Witness ==
    /\ Ran /\ ~AllSelected
    /\ reads.hour = 2
    /\ filtered_hour_data # <<>> /\ filtered_day_data # <<>>
    /\ \E r \in Rows(filtered_hour_data) : r.season # NaN

\* C10 as stated: with every option of the three multi-selects selected, the
\* filtered hourly table is the whole hourly table and the filtered daily
\* table the whole daily table.
C10_DefaultKeepsAll ==
    (Ran /\ AllSelected) =>
        filtered_hour_data = hour_data /\ filtered_day_data = day_data

====
